---- MODULE Spec2Model ----
(***************************************************************************)
(* State-machine model of fluent_context_menu.py: the FluentContextMenu    *)
(* controller (item list, theme flag, cached popup), the _MenuPopup and    *)
(* its _MenuItemWidget / _SeparatorWidget rows, pointer and keyboard       *)
(* handlers, the selection dispatch (_trigger / _open_submenu), attach /   *)
(* detach with the context request of a target, and, each under a          *)
(* specification of its own, _MenuPopup.reposition and svg_to_icon.        *)
(*                                                                         *)
(* Qt delivers events one at a time on the GUI thread.  pc = "idle" is the *)
(* event loop waiting; while action_triggered subscribers or an item       *)
(* callback run (pc = "in_signal" / "in_callback") only host API calls can *)
(* happen, re-entrantly, never input events.                               *)
(***************************************************************************)
EXTENDS Integers, Sequences, FiniteSets, TLC

\* ---------------------------------------------------------------- bounds
MaxItems == 2       \* MenuItemDef objects the host adds to a menu without submenus
MaxMenus == 2       \* controllers alive: the root and those add_submenu made
MaxTreeItems == 2   \* MenuItemDef objects held by all controllers of a menu tree
MaxReentrant == 1   \* API calls the subscribers and the callback of one selection make

Menus == 1..MaxMenus

\* The option sets add_item is called with (text stands for the whole
\* keyword set): an enabled plain action with icon and callback, a disabled
\* checkable one, and an enabled checkable one without callback.
ItemOptions ==
    { [text |-> "Save",   callback |-> TRUE,  icon |-> TRUE,  enabled |-> TRUE,
       checkable |-> FALSE, checked |-> FALSE],
      [text |-> "Delete", callback |-> TRUE,  icon |-> FALSE, enabled |-> FALSE,
       checkable |-> TRUE,  checked |-> FALSE],
      [text |-> "Grid",   callback |-> FALSE, icon |-> FALSE, enabled |-> TRUE,
       checkable |-> TRUE,  checked |-> TRUE] }

\* The widgets the host attaches menus to.
Targets == {"editor", "canvas"}

Buttons == {"LeftButton", "RightButton"}
Keys == {"Key_Escape", "Key_Down", "Key_Up", "Key_Return", "Key_Enter", "Key_A"}

VARIABLES
    budget,       \* MenuItemDef objects the host keeps at most (fixed by Init)
    nmenus,       \* number of FluentContextMenu objects constructed
    _dark_mode,   \* [Menus -> BOOLEAN]            FluentContextMenu._dark_mode
    _items,       \* [Menus -> Seq(MenuItemDef)]   FluentContextMenu._items
    _popup,       \* [Menus -> <<>> or <<popup>>]  FluentContextMenu._popup (<<>> is None)
    mouse,        \* <<menu, row>> of the row the pointer is over, <<0, 0>> for none
    pc,           \* position of the GUI thread inside a selection
    sel,          \* the selection being dispatched by _trigger
    log,          \* what the selection being dispatched has done so far, in order
    reent,        \* API calls made so far by the subscribers / callback of sel
    last,         \* the operation that produced this state, with what it saw
    popupWidgets, \* controllers whose popup window is open, in the order Qt opened them
    focus,        \* controller whose popup holds the input focus, 0 for none of them
    _attached,    \* [Menus -> Seq(Targets)]      FluentContextMenu._attached
    connections,  \* [Targets -> Seq(Menus)]      slots of customContextMenuRequested
    geo,          \* the reposition call of the geometry specification
    svg           \* the svg_to_icon call of the icon specification

vars == <<budget, nmenus, _dark_mode, _items, _popup, mouse, pc, sel, log, reent, last,
          popupWidgets, focus, _attached, connections, geo, svg>>

windows == <<popupWidgets, focus>>
attachments == <<_attached, connections>>
pure == <<geo, svg>>

\* ------------------------------------------------------------ data model
MenuItemDef(kind, text, icon, callback, enabled, checkable, checked, submenu) ==
    [kind |-> kind, text |-> text, icon |-> icon, callback |-> callback,
     enabled |-> enabled, checkable |-> checkable, checked |-> checked,
     submenu |-> submenu]

DARK == "DARK"
LIGHT == "LIGHT"

\* Mutation of _theme_obj: the two themes exchanged.
_theme_obj_swapped(dm) == IF dm THEN LIGHT ELSE DARK

_theme_obj(dm) == IF dm THEN DARK ELSE LIGHT

_SeparatorWidget(theme) ==
    [kind |-> "sep", def |-> 0, _theme |-> theme, _has_any_icons |-> FALSE,
     _hovered |-> FALSE, _pressed |-> FALSE, enabled |-> TRUE]

\* def is the row's reference to its MenuItemDef (its index in _items).
_MenuItemWidget(def, item_def, theme, has_any_icons) ==
    [kind |-> "item", def |-> def, _theme |-> theme,
     _has_any_icons |-> has_any_icons,
     _hovered |-> FALSE, _pressed |-> FALSE, enabled |-> item_def.enabled]

\* pos is the top-left corner of the popup window (QWidget.pos()).
_MenuPopup(theme) ==
    [_theme |-> theme, _item_widgets |-> <<>>, visible |-> FALSE, pos |-> <<0, 0>>]

\* Mutation of add_widget: the row is put in front of the others.
add_widget_front(p, w) ==
    IF w.kind \in {"item", "sep"}
    THEN [p EXCEPT !._item_widgets = <<w>> \o @]
    ELSE p

add_widget(p, w) ==
    IF w.kind \in {"item", "sep"}
    THEN [p EXCEPT !._item_widgets = Append(@, w)]
    ELSE p

widget_set_theme(w, theme) == [w EXCEPT !._theme = theme]

set_theme(p, theme) ==
    [p EXCEPT !._theme = theme,
              !._item_widgets =
                  [k \in DOMAIN @ |->
                      IF @[k].kind \in {"item", "sep"}
                      THEN widget_set_theme(@[k], theme) ELSE @[k]]]

\* Mutation of close: the window stays displayed.
close_ignored(p) == p

\* QWidget.close() / show() on the popup window.
close(p) == [p EXCEPT !.visible = FALSE]
show(p) == [p EXCEPT !.visible = TRUE]

\* Qt keeps the open Qt.WindowType.Popup windows in a stack, here by the
\* controller they were built for: show() of a hidden popup p puts it on
\* top, close() of a displayed one takes it out and hands the focus to the
\* popup that is on top then; show() of a displayed and close() of a hidden
\* window do nothing.
openPopup(stack, m, p) == IF p.visible THEN stack ELSE Append(stack, m)

closePopup(stack, m, p) ==
    IF ~p.visible \/ \A i \in DOMAIN stack : stack[i] # m THEN stack
    ELSE LET at == CHOOSE i \in DOMAIN stack :
                       stack[i] = m /\ \A j \in DOMAIN stack : stack[j] = m => j <= i
         IN  SubSeq(stack, 1, at - 1) \o SubSeq(stack, at + 1, Len(stack))

focus_after_close(stack, f, m, p) ==
    IF closePopup(stack, m, p) = stack THEN f
    ELSE LET rest == closePopup(stack, m, p)
         IN  IF rest = <<>> THEN 0 ELSE rest[Len(rest)]

\* Mutation of setFocus: the focus stays where it was.
setFocus_dropped(f, m) == f

\* popup.setFocus() on the displayed popup of controller m.
setFocus(f, m) == m

\* ---------------------------------------------------------------- geometry
SHADOW_MARGIN == 12
item_height == 32
separator_height == 9
min_item_width == 180

item_h_pad == 12
_ICON_COLUMN_WIDTH == 28

\* x at which paintEvent draws the label of row w, whose item is item_def:
\* the horizontal padding, and the icon column if the popup has an icon or
\* the item is checkable.
label_x(w, item_def) ==
    item_h_pad
    + (IF w._has_any_icons \/ item_def.checkable THEN _ICON_COLUMN_WIDTH ELSE 0)

QRect(x, y, w, h) == [x |-> x, y |-> y, w |-> w, h |-> h]
left(r) == r.x
top(r) == r.y
right(r) == r.x + r.w - 1
bottom(r) == r.y + r.h - 1

max(a, b) == IF a >= b THEN a ELSE b

\* screen.availableGeometry() of the screen the menus of the state machine
\* are displayed on.
availableGeometry == QRect(0, 0, 1000, 800)

\* The point the host displays menus at.
Anchors == { <<950, 750>> }

RECURSIVE rows_height(_, _)
rows_height(ws, k) ==
    IF k > Len(ws) THEN 0
    ELSE (IF ws[k].kind = "item" THEN item_height ELSE separator_height)
         + rows_height(ws, k + 1)

\* Size of the popup window after adjustSize(): the layout's margins around
\* the rows; the labels are short, so that an item row has its minimum width.
width(p) ==
    2 * SHADOW_MARGIN
    + (IF \E k \in DOMAIN p._item_widgets : p._item_widgets[k].kind = "item"
       THEN min_item_width ELSE 0)
height(p) == 2 * (SHADOW_MARGIN + 4) + rows_height(p._item_widgets, 1)

\* Mutation of reposition: the bottom edge is not looked at.
reposition_right_only(global_pos, w, h, avail) ==
    LET x0 == global_pos[1]
        x1 == IF x0 + w > right(avail) THEN right(avail) - w ELSE x0
    IN  << max(x1, left(avail)) - SHADOW_MARGIN,
           max(global_pos[2], top(avail)) - SHADOW_MARGIN >>

\* The point reposition moves a popup window of size w x h to, for the
\* anchor global_pos on a screen of usable area avail.
reposition(global_pos, w, h, avail) ==
    LET x0 == global_pos[1]
        y0 == global_pos[2]
        x1 == IF x0 + w > right(avail) THEN right(avail) - w ELSE x0
        y1 == IF y0 + h > bottom(avail) THEN bottom(avail) - h ELSE y0
        x2 == max(x1, left(avail))
        y2 == max(y1, top(avail))
    IN  << x2 - SHADOW_MARGIN, y2 - SHADOW_MARGIN >>

moved(p, global_pos) ==
    [p EXCEPT !.pos = reposition(global_pos, width(p), height(p), availableGeometry)]

\* popup.mapToGlobal(QPoint(popup.width() - SHADOW_MARGIN, 0))
submenu_anchor(p) == << p.pos[1] + width(p) - SHADOW_MARGIN, p.pos[2] >>

\* Mutation of _invalidate: the popup is closed, the cache not reset.
_invalidate_keep(pop) == IF pop # <<>> THEN << close(pop[1]) >> ELSE pop

\* Closes and discards the cached popup; the closed popup is deleted by
\* deleteLater once control is back in the event loop and, being hidden,
\* receives no input before that.
_invalidate(pop) == IF pop # <<>> THEN <<>> ELSE pop

RECURSIVE build_rows(_, _, _, _, _)
build_rows(p, items, k, t, has_icons) ==
    IF k > Len(items) THEN p
    ELSE build_rows(
            add_widget(p, IF items[k].kind = "SEPARATOR"
                          THEN _SeparatorWidget(t)
                          ELSE _MenuItemWidget(k, items[k], t, has_icons)),
            items, k + 1, t, has_icons)

\* Mutation of _ensure_popup: a new popup is built although one is cached.
_ensure_popup_rebuild(pop, items, dm) ==
    LET t == _theme_obj(dm)
        has_icons == \E i \in 1..Len(items) :
                         items[i].kind # "SEPARATOR" /\ items[i].icon
    IN  build_rows(_MenuPopup(t), items, 1, t, has_icons)

\* Returns the popup to display: the cached one re-themed, or a new one
\* built from the item list.
_ensure_popup(pop, items, dm) ==
    IF pop # <<>> THEN set_theme(pop[1], _theme_obj(dm))
    ELSE LET t == _theme_obj(dm)
             has_icons == \E i \in 1..Len(items) :
                              items[i].kind # "SEPARATOR" /\ items[i].icon
         IN  build_rows(_MenuPopup(t), items, 1, t, has_icons)

\* show_at(global_pos) applied to controller c of the popup function pops.
show_at_in(pops, c, its, dms, global_pos) ==
    [pops EXCEPT ![c] =
        << show(moved(_ensure_popup(pops[c], its[c], dms[c]), global_pos)) >>]

\* ---------------------------------------------------------------- helpers
RECURSIVE SumLen(_, _)
SumLen(its, m) == IF m = 0 THEN 0 ELSE Len(its[m]) + SumLen(its, m - 1)

TotalItems == SumLen(_items, MaxMenus)

NoSel == [m |-> 0, d |-> 0, via |-> "none", before |-> FALSE,
          item |-> MenuItemDef("ACTION", "", FALSE, FALSE, TRUE, FALSE, FALSE, 0)]

Last(op, m, a, b) == [op |-> op, m |-> m, a |-> a, b |-> b]

\* geo / svg while no call of the function has been set up.
NoCall == [fn |-> "none"]

RECURSIVE Descendants(_, _)
Descendants(m, depth) ==
    IF depth = 0 THEN {}
    ELSE LET kids == {_items[m][j].submenu : j \in
                        {i \in DOMAIN _items[m] : _items[m][i].kind = "SUBMENU"}}
         IN  kids \cup UNION {Descendants(c, depth - 1) : c \in kids}

\* The controllers of the menu: the root and the children reached from it
\* through Submenu items.  The host makes no call on a child that clear()
\* has taken out of the menu.
InMenu(m) == m = 1 \/ m \in Descendants(1, MaxMenus)

\* A host API call is made from the event loop or from inside a subscriber
\* or callback that a selection is running.
ApiAllowed ==
    \/ pc = "idle"
    \/ pc \in {"in_signal", "in_callback"} /\ reent < MaxReentrant

ApiFrame ==
    /\ reent' = IF pc = "idle" THEN reent ELSE reent + 1
    /\ UNCHANGED <<pc, sel, log>>

\* The pointer is no longer over a row of a popup that was discarded.
MouseAfterInvalidate(m) == IF mouse[1] = m THEN <<0, 0>> ELSE mouse

\* The window system after popup.close() on the popup of controller m, if it
\* has one.
WindowsAfterClose(m) ==
    IF _popup[m] = <<>> THEN UNCHANGED windows
    ELSE /\ popupWidgets' = closePopup(popupWidgets, m, _popup[m][1])
         /\ focus' = focus_after_close(popupWidgets, focus, m, _popup[m][1])

\* The window system after popup.show() and popup.setFocus() on the popup
\* _ensure_popup returned for controller m.
WindowsAfterShow(m) ==
    /\ popupWidgets' = openPopup(popupWidgets, m,
                                 _ensure_popup(_popup[m], _items[m], _dark_mode[m]))
    /\ focus' = setFocus(focus, m)

\* ------------------------------------------------------------------ Init
Init ==
    /\ budget = MaxItems
    /\ nmenus = 1
    /\ _dark_mode = [m \in Menus |-> FALSE]
    /\ _items = [m \in Menus |-> <<>>]
    /\ _popup = [m \in Menus |-> <<>>]
    /\ mouse = <<0, 0>>
    /\ pc = "idle"
    /\ sel = NoSel
    /\ log = <<>>
    /\ reent = 0
    /\ last = Last("__init__", 1, -1, -1)
    /\ popupWidgets = <<>>
    /\ focus = 0
    /\ _attached = [m \in Menus |-> <<>>]
    /\ connections = [w \in Targets |-> <<>>]
    /\ geo = NoCall
    /\ svg = NoCall

\* ------------------------------------------------------- controller API
dark_mode_setter(m, value) ==
    /\ ApiAllowed /\ InMenu(m)
    /\ IF _dark_mode[m] # value
       THEN /\ _dark_mode' = [_dark_mode EXCEPT ![m] = value]
            /\ _popup' = [_popup EXCEPT ![m] = _invalidate(@)]
            /\ mouse' = MouseAfterInvalidate(m)
            /\ WindowsAfterClose(m)
       ELSE UNCHANGED <<_dark_mode, _popup, mouse, windows>>
    /\ last' = Last("dark_mode", m, IF _dark_mode[m] # value THEN 1 ELSE 0,
                    IF _popup[m] # <<>> THEN 1 ELSE 0)
    /\ ApiFrame
    /\ UNCHANGED <<attachments, pure, budget, nmenus, _items>>

add_item(m, opt) ==
    /\ ApiAllowed /\ InMenu(m) /\ TotalItems < budget
    /\ _items' = [_items EXCEPT ![m] =
           Append(@, MenuItemDef("ACTION", opt.text, opt.icon, opt.callback,
                                 opt.enabled, opt.checkable, opt.checked, 0))]
    /\ _popup' = [_popup EXCEPT ![m] = _invalidate(@)]
    /\ mouse' = MouseAfterInvalidate(m)
    /\ last' = Last("add_item", m, Len(_items[m]) + 1, IF _popup[m] # <<>> THEN 1 ELSE 0)
    /\ WindowsAfterClose(m)
    /\ ApiFrame
    /\ UNCHANGED <<attachments, pure, budget, nmenus, _dark_mode>>

add_separator(m) ==
    /\ ApiAllowed /\ InMenu(m) /\ TotalItems < budget
    /\ _items' = [_items EXCEPT ![m] =
           Append(@, MenuItemDef("SEPARATOR", "", FALSE, FALSE, TRUE, FALSE, FALSE, 0))]
    /\ _popup' = [_popup EXCEPT ![m] = _invalidate(@)]
    /\ mouse' = MouseAfterInvalidate(m)
    /\ last' = Last("add_separator", m, Len(_items[m]) + 1, IF _popup[m] # <<>> THEN 1 ELSE 0)
    /\ WindowsAfterClose(m)
    /\ ApiFrame
    /\ UNCHANGED <<attachments, pure, budget, nmenus, _dark_mode>>

\* The child is constructed with the parent's theme flag of this moment.
add_submenu(m) ==
    /\ ApiAllowed /\ InMenu(m) /\ TotalItems < budget /\ nmenus < MaxMenus
    /\ LET child == nmenus + 1 IN
        /\ nmenus' = child
        /\ _dark_mode' = [_dark_mode EXCEPT ![child] = _dark_mode[m]]
        /\ _items' = [_items EXCEPT ![m] =
               Append(@, MenuItemDef("SUBMENU", "Format", FALSE, FALSE, TRUE,
                                     FALSE, FALSE, child))]
    /\ _popup' = [_popup EXCEPT ![m] = _invalidate(@)]
    /\ mouse' = MouseAfterInvalidate(m)
    /\ last' = Last("add_submenu", m, Len(_items[m]) + 1, IF _popup[m] # <<>> THEN 1 ELSE 0)
    /\ WindowsAfterClose(m)
    /\ ApiFrame
    /\ UNCHANGED <<attachments, pure, budget>>

clear(m) ==
    /\ ApiAllowed /\ InMenu(m)
    /\ _items' = [_items EXCEPT ![m] = <<>>]
    /\ _popup' = [_popup EXCEPT ![m] = _invalidate(@)]
    /\ mouse' = MouseAfterInvalidate(m)
    /\ last' = Last("clear", m, Len(_items[m]), IF _popup[m] # <<>> THEN 1 ELSE 0)
    /\ WindowsAfterClose(m)
    /\ ApiFrame
    /\ UNCHANGED <<attachments, pure, budget, nmenus, _dark_mode>>

show_at(m, global_pos) ==
    /\ ApiAllowed /\ InMenu(m)
    /\ _popup' = show_at_in(_popup, m, _items, _dark_mode, global_pos)
    /\ last' = Last("show_at", m, IF _popup[m] # <<>> THEN 1 ELSE 0, -1)
    /\ WindowsAfterShow(m)
    /\ ApiFrame
    /\ UNCHANGED <<attachments, pure, budget, nmenus, _dark_mode, _items, mouse>>

\* ------------------------------------------------------ selection dispatch
\* Positions (1-based, in _item_widgets) of the _MenuItemWidget rows: the list
\* "items" of keyPressEvent.
RECURSIVE item_rows(_, _)
item_rows(ws, k) ==
    IF k > Len(ws) THEN <<>>
    ELSE IF ws[k].kind = "item" THEN <<k>> \o item_rows(ws, k + 1)
    ELSE item_rows(ws, k + 1)

\* next((i for i, w in enumerate(items) if w.is_hovered), -1), 0-based.
first_hovered(ws, rows) ==
    IF \E i \in 1..Len(rows) : ws[rows[i]]._hovered
    THEN (CHOOSE i \in 1..Len(rows) :
              /\ ws[rows[i]]._hovered
              /\ \A j \in 1..(i - 1) : ~ws[rows[j]]._hovered) - 1
    ELSE -1

\* _set_hover(items, idx) on the widget list ws; idx is 0-based.
_set_hover(ws, rows, idx) ==
    [k \in DOMAIN ws |->
        IF \E i \in 1..Len(rows) : rows[i] = k
        THEN [ws[k] EXCEPT !._hovered = (rows[idx + 1] = k)]
        ELSE ws[k]]

\* Mutation of down_index: Down stops at the last row instead of wrapping.
down_index_clamped(cur, n) == IF cur + 1 >= n THEN n - 1 ELSE cur + 1

\* The row index Down / Up hover next, from cur (-1 for none) and len(items).
down_index(cur, n) == (cur + 1) % n
up_index(cur, n) == (cur - 1) % n

\* Mutation of enter_fires: the row's enabled state is not looked at.
enter_fires_any(ws, rows, cur) == 0 <= cur /\ cur < Len(rows)

\* Whether Enter / Return emits the clicked signal of items[cur].
enter_fires(ws, rows, cur) ==
    0 <= cur /\ cur < Len(rows) /\ ws[rows[cur + 1]].enabled

\* Mutation of toggle_checked: the flag is flipped, checkable or not.
toggle_checked_always(its, m, d) == [its EXCEPT ![m][d].checked = ~@]

\* if self._def.checkable: self._def.checked = not self._def.checked
toggle_checked(its, m, d) ==
    IF its[m][d].checkable THEN [its EXCEPT ![m][d].checked = ~@] ELSE its

\* Mutation of close_popup: every popup of the tree is closed.
close_popup_chain(pops, m) ==
    [k \in DOMAIN pops |->
        IF pops[k] = <<>> THEN <<>> ELSE << close(pops[k][1]) >>]

\* popup.close() in _trigger: popup is the one the row's lambda captured,
\* the popup of controller m itself.
close_popup(pops, m) ==
    [pops EXCEPT ![m] = << close(@[1]) >>]

\* Mutation of _trigger: the notification is emitted before the popup is
\* closed.
_trigger_notify_first(m, d, pops, its, evs, via, before) ==
    /\ _popup' = pops
    /\ _items' = its
    /\ pc' = "in_signal"
    /\ sel' = [m |-> m, d |-> d, via |-> via, before |-> before, item |-> its[m][d]]
    /\ log' = evs \o <<"notify", "close">>
    /\ reent' = 0
    /\ UNCHANGED <<windows, attachments, pure, budget, nmenus, _dark_mode, mouse>>

\* _trigger(item_def, popup) up to the point where the subscribers of
\* action_triggered run; pops / its are the popups and items as the calling
\* handler left them, evs what that handler did before emitting clicked.
_trigger(m, d, pops, its, evs, via, before) ==
    /\ _popup' = close_popup(pops, m)
    /\ _items' = its
    /\ pc' = "in_signal"
    /\ sel' = [m |-> m, d |-> d, via |-> via, before |-> before, item |-> its[m][d]]
    /\ log' = evs \o <<"close", "notify">>
    /\ reent' = 0
    /\ WindowsAfterClose(m)
    /\ UNCHANGED <<attachments, pure, budget, nmenus, _dark_mode, mouse>>

_open_submenu(m, d, pops, its, evs) ==
    /\ IF its[m][d].submenu = 0
       THEN _popup' = pops /\ UNCHANGED windows
       ELSE /\ _popup' = show_at_in(pops, its[m][d].submenu, its, _dark_mode,
                                     submenu_anchor(pops[m][1]))
            /\ WindowsAfterShow(its[m][d].submenu)
    /\ _items' = its
    /\ UNCHANGED <<attachments, pure, budget, nmenus, _dark_mode, mouse, pc, sel, log, reent>>

\* The slot connected to row r's clicked signal by _ensure_popup.
clicked(m, r, pops, its, evs, via, before) ==
    LET d == pops[m][1]._item_widgets[r].def IN
    IF its[m][d].kind = "SUBMENU"
    THEN _open_submenu(m, d, pops, its, evs)
    ELSE _trigger(m, d, pops, its, evs, via, before)

\* The subscribers of action_triggered have returned: _trigger goes on to
\* the item's callback.
emit_return ==
    /\ pc = "in_signal"
    /\ IF sel.item.callback
       THEN /\ pc' = "in_callback"
            /\ log' = Append(log, "callback")
       ELSE /\ pc' = "done"
            /\ log' = log
    /\ last' = Last("emit_return", sel.m, -1, -1)
    /\ UNCHANGED <<windows, attachments, pure, budget, nmenus, _dark_mode, _items, _popup, mouse, sel, reent>>

callback_return ==
    /\ pc = "in_callback"
    /\ pc' = "done"
    /\ last' = Last("callback_return", sel.m, -1, -1)
    /\ UNCHANGED <<windows, attachments, pure, budget, nmenus, _dark_mode, _items, _popup, mouse, sel, log, reent>>

\* _trigger and the event handler that called it return to the event loop.
handler_return ==
    /\ pc = "done"
    /\ pc' = "idle"
    /\ sel' = NoSel
    /\ log' = <<>>
    /\ reent' = 0
    /\ last' = Last("handler_return", sel.m, -1, -1)
    /\ UNCHANGED <<windows, attachments, pure, budget, nmenus, _dark_mode, _items, _popup, mouse>>

\* ---------------------------------------------------------- input events
Shown(m) == m <= nmenus /\ _popup[m] # <<>> /\ _popup[m][1].visible

\* Key and button events go to the popup on top of Qt's popup stack.
Active(m) == Shown(m) /\ popupWidgets # <<>> /\ popupWidgets[Len(popupWidgets)] = m

IsItemRow(m, r) ==
    /\ r \in 1..Len(_popup[m][1]._item_widgets)
    /\ _popup[m][1]._item_widgets[r].kind = "item"

SetRow(m, r, w) == [_popup EXCEPT ![m][1]._item_widgets[r] = w]

enterEvent(m, r) ==
    /\ pc = "idle" /\ Shown(m) /\ IsItemRow(m, r) /\ mouse = <<0, 0>>
    /\ _popup' = SetRow(m, r, [_popup[m][1]._item_widgets[r] EXCEPT !._hovered = TRUE])
    /\ mouse' = <<m, r>>
    /\ last' = Last("enterEvent", m, r, -1)
    /\ UNCHANGED <<windows, attachments, pure, budget, nmenus, _dark_mode, _items, pc, sel, log, reent>>

\* The pointer leaves the row it is over; for a popup that was closed
\* meanwhile this is the leave event the hiding delivers.
leaveEvent(m, r) ==
    /\ pc = "idle" /\ m <= nmenus /\ mouse = <<m, r>> /\ _popup[m] # <<>>
    /\ _popup' = SetRow(m, r, [_popup[m][1]._item_widgets[r] EXCEPT
                                  !._hovered = FALSE, !._pressed = FALSE])
    /\ mouse' = <<0, 0>>
    /\ last' = Last("leaveEvent", m, r, -1)
    /\ UNCHANGED <<windows, attachments, pure, budget, nmenus, _dark_mode, _items, pc, sel, log, reent>>

\* Mutation of press_arms: a disabled row is armed too.
press_arms_disabled(w, button) ==
    button = "LeftButton"

\* The condition under which mousePressEvent sets _pressed.
press_arms(w, button) ==
    button = "LeftButton" /\ w.enabled

mousePressEvent(m, r, button) ==
    /\ pc = "idle" /\ Active(m) /\ IsItemRow(m, r) /\ mouse = <<m, r>>
    /\ LET w == _popup[m][1]._item_widgets[r] IN
        IF press_arms(w, button)
        THEN _popup' = SetRow(m, r, [w EXCEPT !._pressed = TRUE])
        ELSE _popup' = _popup
    /\ last' = Last("mousePressEvent", m, r, IF button = "LeftButton" THEN 1 ELSE 0)
    /\ UNCHANGED <<windows, attachments, pure, budget, nmenus, _dark_mode, _items, mouse, pc, sel, log, reent>>

\* inside: whether the release position is within the row's rect.  While a
\* button is held the row keeps receiving the mouse events and gets no leave
\* event, so a release outside the rect can reach a row the pointer entered.
\* last.b is 1 when the release fired clicked, 2 when it found the row
\* pressed and did not fire, 0 when it left the row as it was.
mouseReleaseEvent(m, r, button, inside) ==
    /\ pc = "idle" /\ Active(m) /\ IsItemRow(m, r)
    /\ (inside => mouse = <<m, r>>)
    /\ LET w == _popup[m][1]._item_widgets[r]
           d == w.def
           pops1 == SetRow(m, r, [w EXCEPT !._pressed = FALSE])
       IN
        IF button = "LeftButton" /\ w._pressed
        THEN IF w.enabled /\ inside
             THEN /\ last' = Last("mouseReleaseEvent", m, r, 1)
                  /\ clicked(m, r, pops1, toggle_checked(_items, m, d),
                             IF _items[m][d].checkable THEN <<"flip">> ELSE <<>>,
                             "mouse", _items[m][d].checked)
             ELSE /\ last' = Last("mouseReleaseEvent", m, r, 2)
                  /\ _popup' = pops1
                  /\ UNCHANGED <<windows, attachments, pure, budget, nmenus, _dark_mode, _items, mouse, pc, sel, log, reent>>
        ELSE /\ last' = Last("mouseReleaseEvent", m, r, 0)
             /\ UNCHANGED <<windows, attachments, pure, budget, nmenus, _dark_mode, _items, _popup, mouse, pc, sel, log, reent>>

\* last.a is cur, the hovered index the handler computed (-1 for none, -2
\* when it returned before computing it); last.b the number of item rows.
keyPressEvent(m, key) ==
    /\ pc = "idle" /\ Active(m)
    /\ LET p == _popup[m][1]
           ws == p._item_widgets
           items == item_rows(ws, 1)
           n == Len(items)
           cur == first_hovered(ws, items)
       IN
        IF key = "Key_Escape"
        THEN /\ _popup' = [_popup EXCEPT ![m] = << close(p) >>]
             /\ WindowsAfterClose(m)
             /\ last' = Last(key, m, -2, n)
             /\ UNCHANGED <<attachments, pure, budget, nmenus, _dark_mode, _items, mouse, pc, sel, log, reent>>
        ELSE IF n = 0
        THEN /\ last' = Last(key, m, -2, n)
             /\ UNCHANGED <<windows, attachments, pure, budget, nmenus, _dark_mode, _items, _popup, mouse, pc, sel, log, reent>>
        ELSE IF key = "Key_Down"
        THEN /\ _popup' = [_popup EXCEPT ![m][1]._item_widgets =
                               _set_hover(ws, items, down_index(cur, n))]
             /\ last' = Last(key, m, cur, n)
             /\ UNCHANGED <<windows, attachments, pure, budget, nmenus, _dark_mode, _items, mouse, pc, sel, log, reent>>
        ELSE IF key = "Key_Up"
        THEN /\ _popup' = [_popup EXCEPT ![m][1]._item_widgets =
                               _set_hover(ws, items, up_index(cur, n))]
             /\ last' = Last(key, m, cur, n)
             /\ UNCHANGED <<windows, attachments, pure, budget, nmenus, _dark_mode, _items, mouse, pc, sel, log, reent>>
        ELSE IF key \in {"Key_Return", "Key_Enter"}
        THEN /\ last' = Last(key, m, cur, n)
             /\ IF enter_fires(ws, items, cur)
                THEN clicked(m, items[cur + 1], _popup, _items, <<>>, "key",
                             _items[m][ws[items[cur + 1]].def].checked)
                ELSE UNCHANGED <<windows, attachments, pure, budget, nmenus, _dark_mode, _items, _popup, mouse, pc,
                                 sel, log, reent>>
        ELSE /\ last' = Last(key, m, cur, n)
             /\ UNCHANGED <<windows, attachments, pure, budget, nmenus, _dark_mode, _items, _popup, mouse, pc, sel, log, reent>>

\* A click outside the popup: Qt closes a Qt.WindowType.Popup window.
outside_click(m) ==
    /\ pc = "idle" /\ Active(m)
    /\ _popup' = [_popup EXCEPT ![m] = << close(@[1]) >>]
    /\ WindowsAfterClose(m)
    /\ last' = Last("outside_click", m, -1, -1)
    /\ UNCHANGED <<attachments, pure, budget, nmenus, _dark_mode, _items, mouse, pc, sel, log, reent>>

Rows == 1..MaxItems

\* The events of the GUI thread and the host's calls on controllers that
\* have no submenus.
Next ==
    \/ \E m \in Menus, v \in BOOLEAN : dark_mode_setter(m, v)
    \/ \E m \in Menus, opt \in ItemOptions : add_item(m, opt)
    \/ \E m \in Menus : add_separator(m)
    \/ \E m \in Menus : clear(m)
    \/ \E m \in Menus, global_pos \in Anchors : show_at(m, global_pos)
    \/ \E m \in Menus, r \in Rows : enterEvent(m, r)
    \/ \E m \in Menus, r \in Rows : leaveEvent(m, r)
    \/ \E m \in Menus, r \in Rows, b \in Buttons : mousePressEvent(m, r, b)
    \/ \E m \in Menus, r \in Rows, b \in Buttons, inside \in BOOLEAN :
           mouseReleaseEvent(m, r, b, inside)
    \/ \E m \in Menus, key \in Keys : keyPressEvent(m, key)
    \/ \E m \in Menus : outside_click(m)
    \/ emit_return
    \/ callback_return
    \/ handler_return

\* A menu without submenus, of up to MaxItems items.
Spec == Init /\ [][Next]_vars

\* A menu tree: the same, and the host also calls add_submenu; the
\* controllers together hold up to MaxTreeItems items.
InitTree ==
    /\ budget = MaxTreeItems
    /\ nmenus = 1
    /\ _dark_mode = [m \in Menus |-> FALSE]
    /\ _items = [m \in Menus |-> <<>>]
    /\ _popup = [m \in Menus |-> <<>>]
    /\ mouse = <<0, 0>>
    /\ pc = "idle"
    /\ sel = NoSel
    /\ log = <<>>
    /\ reent = 0
    /\ last = Last("__init__", 1, -1, -1)
    /\ popupWidgets = <<>>
    /\ focus = 0
    /\ _attached = [m \in Menus |-> <<>>]
    /\ connections = [w \in Targets |-> <<>>]
    /\ geo = NoCall
    /\ svg = NoCall

NextTree ==
    \/ Next
    \/ \E m \in Menus : add_submenu(m)

SpecTree == InitTree /\ [][NextTree]_vars

\* ------------------------------------------------------ attach / detach
\* widget in self._attached
is_attached(attached, w) == \E i \in DOMAIN attached : attached[i] = w

\* Mutation of attach_connects: the target is registered although it is.
attach_connects_always(attached, w) == TRUE

\* Whether attach(widget) connects and registers the widget.
attach_connects(attached, w) == ~is_attached(attached, w)

\* list.remove(x) / disconnect(slot): the first occurrence is taken out.
remove(q, x) ==
    IF \A i \in DOMAIN q : q[i] # x THEN q
    ELSE LET at == CHOOSE i \in DOMAIN q : q[i] = x /\ \A j \in 1..(i - 1) : q[j] # x
         IN  SubSeq(q, 1, at - 1) \o SubSeq(q, at + 1, Len(q))

\* attach also sets the widget's context-menu policy to CustomContextMenu,
\* which makes the widget emit customContextMenuRequested on a context
\* request; nothing sets it back.
attach(m, w) ==
    /\ ApiAllowed /\ InMenu(m)
    /\ IF attach_connects(_attached[m], w)
       THEN /\ connections' = [connections EXCEPT ![w] = Append(@, m)]
            /\ _attached' = [_attached EXCEPT ![m] = Append(@, w)]
       ELSE UNCHANGED attachments
    /\ last' = Last("attach", m, w, IF is_attached(_attached[m], w) THEN 1 ELSE 0)
    /\ ApiFrame
    /\ UNCHANGED <<windows, pure, budget, nmenus, _dark_mode, _items, _popup, mouse>>

detach(m, w) ==
    /\ ApiAllowed /\ InMenu(m)
    /\ IF is_attached(_attached[m], w)
       THEN /\ connections' = [connections EXCEPT ![w] = remove(@, m)]
            /\ _attached' = [_attached EXCEPT ![m] = remove(@, w)]
       ELSE UNCHANGED attachments
    /\ last' = Last("detach", m, w, IF is_attached(_attached[m], w) THEN 1 ELSE 0)
    /\ ApiFrame
    /\ UNCHANGED <<windows, pure, budget, nmenus, _dark_mode, _items, _popup, mouse>>

\* show_at(global_pos) of controller m on the state st of the popups and of
\* the window system; st.shows counts the calls.
show_at_st(st, m, global_pos) ==
    LET p == _ensure_popup(st.pops[m], _items[m], _dark_mode[m])
    IN  [pops |-> [st.pops EXCEPT ![m] = << show(moved(p, global_pos)) >>],
         stack |-> openPopup(st.stack, m, p),
         focus |-> setFocus(st.focus, m),
         shows |-> st.shows + 1]

\* The slots connected to the signal run in the order they were connected;
\* each is the _on_request of a controller and calls its show_at.
RECURSIVE _on_requests(_, _, _, _)
_on_requests(st, slots, k, global_pos) ==
    IF k > Len(slots) THEN st
    ELSE _on_requests(show_at_st(st, slots[k], global_pos), slots, k + 1, global_pos)

\* The user asks for the context menu of widget w (right click, menu key) and
\* w emits customContextMenuRequested; global_pos is
\* widget.mapToGlobal(local_pos).  last.b is the number of show_at calls.
customContextMenuRequested(w, global_pos) ==
    /\ pc = "idle"
    /\ LET st == _on_requests([pops |-> _popup, stack |-> popupWidgets,
                               focus |-> focus, shows |-> 0],
                              connections[w], 1, global_pos)
       IN  /\ _popup' = st.pops
           /\ popupWidgets' = st.stack
           /\ focus' = st.focus
           /\ last' = Last("customContextMenuRequested", 0, w, st.shows)
    /\ UNCHANGED <<attachments, pure, budget, nmenus, _dark_mode, _items, mouse,
                   pc, sel, log, reent>>

\* The host builds, themes, attaches and displays a menu, and the user asks
\* for it on the targets and dismisses it.
NextAttach ==
    \/ \E m \in Menus, v \in BOOLEAN : dark_mode_setter(m, v)
    \/ \E m \in Menus, opt \in ItemOptions : add_item(m, opt)
    \/ \E m \in Menus : add_separator(m)
    \/ \E m \in Menus : clear(m)
    \/ \E m \in Menus, global_pos \in Anchors : show_at(m, global_pos)
    \/ \E m \in Menus : outside_click(m)
    \/ \E m \in Menus, w \in Targets : attach(m, w)
    \/ \E m \in Menus, w \in Targets : detach(m, w)
    \/ \E w \in Targets, global_pos \in Anchors : customContextMenuRequested(w, global_pos)

SpecAttach == Init /\ [][NextAttach]_vars

\* ------------------------------------------------ reposition on its own
\* Usable areas: a primary screen, and a screen to its left that has a bar
\* at its top.
GeoScreens == { QRect(0, 0, 1000, 800), QRect(-1280, 40, 1280, 984) }

\* Window sizes (shadow margin included); each fits every screen.
GeoSizes == { <<300, 200>>, <<204, 73>>, <<24, 32>> }

\* Distances of the anchor from an edge of the usable area.
GeoOffsets == { -40, -13, -12, -1, 0, 1, 11, 12, 13, 150 }

GeoXs(avail, w) ==
    {left(avail) + o : o \in GeoOffsets} \cup {right(avail) - w + o : o \in GeoOffsets}
    \cup {950}
GeoYs(avail, h) ==
    {top(avail) + o : o \in GeoOffsets} \cup {bottom(avail) - h + o : o \in GeoOffsets}
    \cup {750}

GeoCalls ==
    UNION { UNION { { [fn |-> "reposition", global_pos |-> <<x, y>>,
                       w |-> sz[1], h |-> sz[2], avail |-> avail, pos |-> <<>>] :
                         x \in GeoXs(avail, sz[1]), y \in GeoYs(avail, sz[2]) } :
                    sz \in GeoSizes } : avail \in GeoScreens }

InitGeom ==
    /\ budget = 0
    /\ nmenus = 1
    /\ _dark_mode = [m \in Menus |-> FALSE]
    /\ _items = [m \in Menus |-> <<>>]
    /\ _popup = [m \in Menus |-> <<>>]
    /\ mouse = <<0, 0>>
    /\ pc = "idle"
    /\ sel = NoSel
    /\ log = <<>>
    /\ reent = 0
    /\ last = Last("__init__", 1, -1, -1)
    /\ popupWidgets = <<>>
    /\ focus = 0
    /\ _attached = [m \in Menus |-> <<>>]
    /\ connections = [w \in Targets |-> <<>>]
    /\ geo \in GeoCalls
    /\ svg = NoCall

\* popup.reposition(global_pos) on a popup window of the size drawn.
reposition_call ==
    /\ geo.fn = "reposition" /\ geo.pos = <<>>
    /\ geo' = [geo EXCEPT !.pos = reposition(geo.global_pos, geo.w, geo.h, geo.avail)]
    /\ UNCHANGED <<budget, nmenus, _dark_mode, _items, _popup, mouse, pc, sel, log,
                   reent, last, windows, attachments, svg>>

NextGeom == reposition_call

SpecGeom == InitGeom /\ [][NextGeom]_vars

\* ----------------------------------------------- svg_to_icon on its own
MaxSvgLen == 4      \* pieces of markup in the SVG strings tried

\* SVG markup is a sequence of pieces: an attribute name with its "=", or a
\* quoted attribute value (q is the quote character used).
Attr(name) == [k |-> "attr", q |-> "", v |-> name]
Val(q, v) == [k |-> "val", q |-> q, v |-> v]

SvgPieces ==
    { Attr("stroke"), Attr("fill"), Attr("stop-color"),
      Val("dq", "currentColor"), Val("sq", "currentColor"),
      Val("dq", "#000000"), Val("sq", "none") }

\* color.name() of the colours tried; "None" is the default color=None.
SvgColors == { "None", "#ff0000", "#e4e4e4" }

\* bytes.replace(old, new): the occurrences of old, found from the left
\* and not overlapping, are replaced.
RECURSIVE replace(_, _, _)
replace(q, old, new) ==
    IF Len(q) < Len(old) THEN q
    ELSE IF SubSeq(q, 1, Len(old)) = old
         THEN new \o replace(SubSeq(q, Len(old) + 1, Len(q)), old, new)
         ELSE <<q[1]>> \o replace(SubSeq(q, 2, Len(q)), old, new)

\* Mutation of svg_bytes: the single-quoted forms are not replaced.
svg_bytes_double_quoted_only(svg_string, color) ==
    IF color # "None"
    THEN replace(replace(svg_string,
             <<Attr("stroke"), Val("dq", "currentColor")>>,
             <<Attr("stroke"), Val("dq", color)>>),
             <<Attr("fill"), Val("dq", "currentColor")>>,
             <<Attr("fill"), Val("dq", color)>>)
    ELSE svg_string

\* The markup svg_to_icon hands to the renderer.
svg_bytes(svg_string, color) ==
    IF color # "None"
    THEN replace(replace(replace(replace(svg_string,
             <<Attr("stroke"), Val("dq", "currentColor")>>,
             <<Attr("stroke"), Val("dq", color)>>),
             <<Attr("fill"), Val("dq", "currentColor")>>,
             <<Attr("fill"), Val("dq", color)>>),
             <<Attr("stroke"), Val("sq", "currentColor")>>,
             <<Attr("stroke"), Val("sq", color)>>),
             <<Attr("fill"), Val("sq", "currentColor")>>,
             <<Attr("fill"), Val("sq", color)>>)
    ELSE svg_string

SvgCalls ==
    { [fn |-> "svg_to_icon", svg_string |-> str, color |-> c, rendered |-> <<>>] :
          str \in UNION { [1..n -> SvgPieces] : n \in 0..MaxSvgLen }, c \in SvgColors }

InitSvg ==
    /\ budget = 0
    /\ nmenus = 1
    /\ _dark_mode = [m \in Menus |-> FALSE]
    /\ _items = [m \in Menus |-> <<>>]
    /\ _popup = [m \in Menus |-> <<>>]
    /\ mouse = <<0, 0>>
    /\ pc = "idle"
    /\ sel = NoSel
    /\ log = <<>>
    /\ reent = 0
    /\ last = Last("__init__", 1, -1, -1)
    /\ popupWidgets = <<>>
    /\ focus = 0
    /\ _attached = [m \in Menus |-> <<>>]
    /\ connections = [w \in Targets |-> <<>>]
    /\ geo = NoCall
    /\ svg \in SvgCalls

\* svg_to_icon(svg_string, color=color); rendered holds, as its one element,
\* the markup given to QSvgRenderer.
svg_to_icon ==
    /\ svg.fn = "svg_to_icon" /\ svg.rendered = <<>>
    /\ svg' = [svg EXCEPT !.rendered = << svg_bytes(svg.svg_string, svg.color) >>]
    /\ UNCHANGED <<budget, nmenus, _dark_mode, _items, _popup, mouse, pc, sel, log,
                   reent, last, windows, attachments, geo>>

NextSvg == svg_to_icon

SpecSvg == InitSvg /\ [][NextSvg]_vars

\* =================================================================== claims
Count(q, e) == Cardinality({i \in 1..Len(q) : q[i] = e})

\* What _trigger itself did in the selection being dispatched.
TriggerEvents == SelectSeq(log, LAMBDA e : e # "flip")

\* 0-based indices, among the item rows of popup p, of the hovered rows.
HoveredIdx(p) ==
    LET rows == item_rows(p._item_widgets, 1)
    IN  {i \in 0..(Len(rows) - 1) : p._item_widgets[rows[i + 1]]._hovered}

IsMutation(l) ==
    \/ l.op \in {"add_item", "add_separator", "add_submenu", "clear"}
    \/ l.op = "dark_mode" /\ l.a = 1

EnterKeys == {"Key_Return", "Key_Enter"}

\* C1: a selection of an Action row closes the popup, then emits
\* action_triggered, then invokes the item's callback (if it has one): the
\* popup is closed when the subscribers start to run, and the selection's
\* record is close, notify[, callback], each once, in this order, whatever
\* the subscribers and the callback do to the menu meanwhile.
C1_CloseNotifyCallback ==
    /\ pc = "idle" => log = <<>>
    /\ pc = "in_signal" =>
          /\ TriggerEvents = <<"close", "notify">>
          /\ reent = 0 => ~_popup[sel.m][1].visible
    /\ pc = "in_callback" =>
          /\ sel.item.callback
          /\ TriggerEvents = <<"close", "notify", "callback">>
    /\ pc = "done" =>
          TriggerEvents = IF sel.item.callback
                          THEN <<"close", "notify", "callback">>
                          ELSE <<"close", "notify">>

\* A selection has run to its end although a subscriber or the callback
\* cleared the menu it came from.
C1_Witness ==
    /\ pc = "done" /\ reent > 0 /\ sel.item.callback
    /\ _items[sel.m] = <<>>
    /\ TriggerEvents = <<"close", "notify", "callback">>

\* C2: a click (left release inside an armed, enabled row) flips the checked
\* flag of that row's item exactly when the item is checkable and changes no
\* other item; no other pointer event and no later step of the click's
\* handling changes any item.
C2_ClickTogglesOnce ==
    [][ /\ (last'.op = "mouseReleaseEvent" /\ last'.b = 1) =>
              LET m == last'.m
                  d == _popup[m][1]._item_widgets[last'.a].def
              IN  /\ DOMAIN _items'[m] = DOMAIN _items[m]
                  /\ _items'[m][d].checked =
                        IF _items[m][d].checkable
                        THEN ~_items[m][d].checked ELSE _items[m][d].checked
                  /\ \A k \in Menus : \A j \in DOMAIN _items[k] :
                        <<k, j>> # <<m, d>> => _items'[k][j] = _items[k][j]
                  /\ \A k \in Menus \ {m} : _items'[k] = _items[k]
        /\ (\/ last'.op = "mouseReleaseEvent" /\ last'.b # 1
            \/ last'.op \in {"mousePressEvent", "enterEvent", "leaveEvent",
                             "emit_return", "callback_return", "handler_return"})
              => _items' = _items ]_vars

\* A click has flipped a checkable item that shares its menu with a
\* non-checkable one.
C2_Witness ==
    /\ pc = "in_signal" /\ reent = 0 /\ sel.via = "mouse"
    /\ last.op = "mouseReleaseEvent" /\ last.b = 1
    /\ sel.item.checkable /\ sel.item.checked # sel.before
    /\ _items[sel.m][sel.d].checked = sel.item.checked
    /\ \E j \in DOMAIN _items[sel.m] :
          j # sel.d /\ _items[sel.m][j].kind = "ACTION" /\ ~_items[sel.m][j].checkable

\* C3: whenever the selection of a checkable item is being dispatched, by
\* pointer or by Enter / Return, the item's checked flag was flipped exactly
\* once before, so that subscribers and callback see the flipped value.
C3_SelectedAfterOneFlip ==
    (pc \in {"in_signal", "in_callback", "done"} /\ sel.item.checkable) =>
        /\ Count(log, "flip") = 1
        /\ sel.item.checked = ~sel.before

\* C4: add_item, add_separator, add_submenu, clear and a change of the theme
\* flag leave the controller without a cached popup, and a controller gets a
\* popup only by a display (show_at, also as called for a submenu row).
C4_MutationDiscardsPopup ==
    [][ /\ IsMutation(last') => _popup'[last'.m] = <<>>
        /\ \A m \in Menus :
              (_popup[m] = <<>> /\ _popup'[m] # <<>>) =>
                  /\ last'.op \in {"show_at", "mouseReleaseEvent"} \cup EnterKeys
                  /\ _popup'[m][1].visible ]_vars

\* add_submenu was called on a controller that held a popup.
C4_Witness ==
    /\ last.op = "add_submenu" /\ last.b = 1
    /\ _popup[last.m] = <<>>
    /\ Len(_items[last.m]) >= 2

RowsMatch(ws, items) ==
    /\ Len(ws) = Len(items)
    /\ \A k \in 1..Len(items) :
          IF items[k].kind = "SEPARATOR"
          THEN ws[k].kind = "sep"
          ELSE ws[k].kind = "item" /\ ws[k].def = k

C6_DisplayedThemeIsFlag ==
    \A m \in Menus : (_popup[m] # <<>> /\ _popup[m][1].visible) =>
        LET want == IF _dark_mode[m] THEN "DARK" ELSE "LIGHT" IN
        /\ _popup[m][1]._theme = want
        /\ \A k \in DOMAIN _popup[m][1]._item_widgets :
              _popup[m][1]._item_widgets[k]._theme = want

\* The flag, False at construction, was set and the menu displayed after it.
C6_Witness ==
    /\ last.op = "show_at" /\ _dark_mode[last.m]
    /\ _popup[last.m][1].visible
    /\ _popup[last.m][1]._theme = "DARK"
    /\ Len(_popup[last.m][1]._item_widgets) >= 2

\* C7: after a controller's theme flag was changed, every controller of its
\* submenu tree has the same flag, and a displayed child popup its theme.
C7_ThemeReachesSubmenus ==
    (last.op = "dark_mode" /\ last.a = 1) =>
        \A c \in Descendants(last.m, MaxMenus) :
            _dark_mode[c] = _dark_mode[last.m]

\* C8: Down in a popup of n >= 1 item rows leaves exactly the row
\* (cur + 1) mod n hovered, cur being -1 when no row was hovered: row 0 from
\* no row hovered and from the last row.
C8_DownHoversNext ==
    (last.op = "Key_Down" /\ last.a >= -1) =>
        LET n == last.b
            cur == last.a
            h == HoveredIdx(_popup[last.m][1])
        IN  /\ n >= 1
            /\ n = Len(item_rows(_popup[last.m][1]._item_widgets, 1))
            /\ h = {IF cur = n - 1 THEN 0 ELSE cur + 1}
            /\ cur = -1 => h = {0}

\* Down wrapped from the last of the two item rows of a popup to the first.
C8_Witness ==
    /\ last.op = "Key_Down" /\ last.b = 2 /\ last.a = 1
    /\ HoveredIdx(_popup[last.m][1]) = {0}
    /\ Len(_popup[last.m][1]._item_widgets) = 2

\* C9: Up in a popup of n >= 1 item rows leaves exactly the row (cur - 1)
\* hovered, and the last row when row 0 or no row was hovered.
C9_UpHoversPreviousOrLast ==
    (last.op = "Key_Up" /\ last.a >= -1) =>
        LET n == last.b
            cur == last.a
        IN  HoveredIdx(_popup[last.m][1]) = {IF cur <= 0 THEN n - 1 ELSE cur - 1}

\* C10: Up / Down hover the row their index arithmetic gives, enabled or not;
\* Enter / Return dispatches a selection only of the hovered row and only if
\* that row is enabled, and otherwise changes nothing at all.
C10_EnterNeedsEnabledHover ==
    [][ /\ (last'.op \in {"Key_Down", "Key_Up"} /\ last'.a >= -1) =>
              LET h == HoveredIdx(_popup'[last'.m][1])
                  n == last'.b
              IN  /\ Cardinality(h) = 1
                  /\ h = {IF last'.op = "Key_Down"
                          THEN (last'.a + 1) % n ELSE (last'.a + n - 1) % n}
        /\ last'.op \in EnterKeys =>
              LET m == last'.m
                  ws == _popup[m][1]._item_widgets
                  rows == item_rows(ws, 1)
                  h == HoveredIdx(_popup[m][1])
                  first == CHOOSE i \in h : \A j \in h : i <= j
                  fires == h # {} /\ ws[rows[first + 1]].enabled
              IN  /\ ~fires => UNCHANGED <<nmenus, _dark_mode, _items, _popup,
                                           mouse, pc, sel, log, reent>>
                  /\ fires =>
                        IF _items[m][ws[rows[first + 1]].def].kind = "SUBMENU"
                        THEN pc' = "idle" /\ log' = <<>>
                        ELSE /\ pc' = "in_signal"
                             /\ sel'.m = m /\ sel'.d = ws[rows[first + 1]].def
                             /\ ~_popup'[m][1].visible ]_vars

\* Enter / Return was pressed with a disabled row hovered and did nothing:
\* the popup is still displayed and no selection is being dispatched.
C10_Witness ==
    /\ last.op \in EnterKeys /\ last.a >= 0
    /\ pc = "idle" /\ log = <<>>
    /\ _popup[last.m][1].visible
    /\ HoveredIdx(_popup[last.m][1]) = {last.a}
    /\ LET ws == _popup[last.m][1]._item_widgets
       IN  ~ws[item_rows(ws, 1)[last.a + 1]].enabled

\* C11: Escape closes the popup it is pressed in, whatever rows it has and
\* whichever is hovered, and changes nothing else: not an item (so no checked
\* flag), not the item list, not a row, not another popup, and no selection
\* is dispatched (no notification, no callback).
C11_EscapeOnlyCloses ==
    [][ last'.op = "Key_Escape" =>
          LET m == last'.m IN
          /\ _popup[m][1].visible /\ ~_popup'[m][1].visible
          /\ \A i \in DOMAIN popupWidgets' : popupWidgets'[i] # m
          /\ _popup'[m][1]._item_widgets = _popup[m][1]._item_widgets
          /\ _popup'[m][1]._theme = _popup[m][1]._theme
          /\ \A k \in Menus \ {m} : _popup'[k] = _popup[k]
          /\ _items' = _items /\ _dark_mode' = _dark_mode /\ nmenus' = nmenus
          /\ pc = "idle" /\ pc' = "idle"
          /\ log' = <<>> /\ sel' = NoSel /\ reent' = reent ]_vars

\* Escape closed a popup in which a checked checkable row was hovered; the
\* item is still checked and nothing is being dispatched.
C11_Witness ==
    /\ last.op = "Key_Escape" /\ pc = "idle" /\ log = <<>>
    /\ ~_popup[last.m][1].visible
    /\ \E r \in DOMAIN _popup[last.m][1]._item_widgets :
          LET w == _popup[last.m][1]._item_widgets[r] IN
          /\ w.kind = "item" /\ w._hovered
          /\ _items[last.m][w.def].checkable /\ _items[last.m][w.def].checked

\* The window rectangle a reposition call ended with.
GeoRect == QRect(geo.pos[1], geo.pos[2], geo.w, geo.h)

GeoDone == geo.fn = "reposition" /\ geo.pos # <<>>

\* C12: for every anchor and every window that fits the usable area, the
\* window reposition has moved does not reach past the right or the bottom
\* edge of the usable area (edges as QRect reports them); and where the
\* window put at the anchor would reach past an edge, the anchor has been
\* taken back by that overflow, as far as the left / top edge allows.
C12_NotPastRightBottom ==
    (GeoDone /\ geo.w <= geo.avail.w /\ geo.h <= geo.avail.h) =>
        LET over_x == geo.global_pos[1] + geo.w - right(geo.avail)
            over_y == geo.global_pos[2] + geo.h - bottom(geo.avail)
        IN  /\ right(GeoRect) <= right(geo.avail)
            /\ bottom(GeoRect) <= bottom(geo.avail)
            /\ over_x > 0 =>
                  geo.pos[1] + SHADOW_MARGIN =
                      max(geo.global_pos[1] - over_x, left(geo.avail))
            /\ over_y > 0 =>
                  geo.pos[2] + SHADOW_MARGIN =
                      max(geo.global_pos[2] - over_y, top(geo.avail))

\* The example of the specification: area [0,0]-[1000,800], panel 300x200,
\* anchor (950, 750); the window ends inside the area, moved back on both
\* axes.
C12_Witness ==
    /\ GeoDone
    /\ geo.avail = QRect(0, 0, 1000, 800)
    /\ geo.w = 300 /\ geo.h = 200 /\ geo.global_pos = <<950, 750>>
    /\ geo.pos[1] < 950 - SHADOW_MARGIN /\ geo.pos[2] < 750 - SHADOW_MARGIN
    /\ left(GeoRect) >= 0 /\ top(GeoRect) >= 0
    /\ right(GeoRect) <= 999 /\ bottom(GeoRect) <= 799

\* C13: for every anchor, the window reposition has moved, shadow margin
\* included, does not begin before the left or the top edge of the usable
\* area.
C13_NotBeforeLeftTop ==
    GeoDone => /\ left(GeoRect) >= left(geo.avail)
               /\ top(GeoRect) >= top(geo.avail)

\* The row (position in _item_widgets) of popup m that the step to last'
\* selected by click or by Enter / Return, 0 if it selected none.
SelectedRow(l, m) ==
    IF l.op = "mouseReleaseEvent" /\ l.b = 1 THEN l.a
    ELSE IF l.op \in EnterKeys /\ l.a >= 0
              /\ _popup[m][1]._item_widgets[
                     item_rows(_popup[m][1]._item_widgets, 1)[l.a + 1]].enabled
         THEN item_rows(_popup[m][1]._item_widgets, 1)[l.a + 1]
    ELSE 0

\* C14: the selection of a Submenu row, by click or by Enter / Return, leaves
\* the parent popup displayed, dispatches nothing (no notification, no
\* callback), and ends with the child controller's popup displayed, as one
\* window, whether or not the child had a popup, displayed or not, before.
C14_SubmenuOpensOneChild ==
    [][ \A m \in Menus :
          (last'.m = m /\ SelectedRow(last', m) # 0
             /\ _items[m][_popup[m][1]._item_widgets[SelectedRow(last', m)].def].kind
                    = "SUBMENU") =>
              LET c == _items[m][_popup[m][1]._item_widgets[
                                     SelectedRow(last', m)].def].submenu
              IN  /\ _popup'[m] # <<>> /\ _popup'[m][1].visible
                  /\ Count(popupWidgets', m) = 1
                  /\ pc' = "idle" /\ log' = <<>> /\ sel' = NoSel
                  /\ _items' = _items
                  /\ _popup'[c] # <<>> /\ _popup'[c][1].visible
                  /\ Count(popupWidgets', c) = 1
                  /\ \A k \in Menus \ {m, c} : _popup'[k] = _popup[k] ]_vars

\* A Submenu row was selected again: the parent popup and the child popup are
\* displayed, and the child popup, which has a hovered row, is the one that
\* was displayed for an earlier selection.
C14_Witness ==
    /\ last.op \in {"mouseReleaseEvent"} \cup EnterKeys
    /\ pc = "idle"
    /\ \E d \in DOMAIN _items[last.m] :
          /\ _items[last.m][d].kind = "SUBMENU"
          /\ LET c == _items[last.m][d].submenu IN
             /\ popupWidgets = <<last.m, c>>
             /\ _popup[last.m][1].visible /\ _popup[c][1].visible
             /\ \E r \in DOMAIN _popup[c][1]._item_widgets :
                   _popup[c][1]._item_widgets[r]._hovered

\* C15: a target is registered at most once with a controller and connected
\* exactly as often as it is registered; attach of an attached target and
\* detach of an unattached one change nothing; detach of an attached target
\* takes registration and connection away; a context request on a target
\* calls show_at once for the controller it is attached to, and, on a target
\* that is not attached, calls nothing and leaves every popup as it was.
C15_AttachDetachIdempotent ==
    [][ /\ \A m \in Menus, w \in Targets :
              /\ Count(_attached'[m], w) <= 1
              /\ Count(connections'[w], m) = Count(_attached'[m], w)
        /\ (last'.op \in {"attach", "detach"}) =>
              LET m == last'.m
                  w == last'.a
                  was == \E i \in DOMAIN _attached[m] : _attached[m][i] = w
              IN  /\ last'.op = "attach" =>
                        /\ was => UNCHANGED <<_attached, connections>>
                        /\ Count(_attached'[m], w) = 1
                  /\ last'.op = "detach" =>
                        /\ ~was => UNCHANGED <<_attached, connections>>
                        /\ Count(_attached'[m], w) = 0
                        /\ Count(connections'[w], m) = 0
                  /\ \A k \in Menus, v \in Targets :
                        <<k, v>> # <<m, w>> =>
                            Count(_attached'[k], v) = Count(_attached[k], v)
                  /\ UNCHANGED <<_items, _popup, _dark_mode, popupWidgets>>
        /\ last'.op = "customContextMenuRequested" =>
              LET w == last'.a
                  ms == {m \in Menus : \E i \in DOMAIN _attached[m] : _attached[m][i] = w}
              IN  /\ last'.b = Cardinality(ms)
                  /\ \A m \in ms : _popup'[m] # <<>> /\ _popup'[m][1].visible
                  /\ \A m \in Menus \ ms : _popup'[m] = _popup[m]
                  /\ UNCHANGED <<_attached, connections, _items>> ]_vars

\* attach was called for a target that was attached already, next to
\* another attached target: it is registered and connected once.
C15_Witness ==
    /\ last.op = "attach" /\ last.b = 1 /\ last.a = "editor"
    /\ _attached[last.m] = <<"canvas", "editor">>
    /\ connections["editor"] = <<last.m>>
    /\ _popup[last.m] # <<>>

\* C16 as stated: clear() leaves the item list empty and no popup cached,
\* and a show_at of a controller whose item list is empty ends with no popup
\* displayed.
C16_EmptyMenuShowsNothing ==
    /\ last.op = "clear" => (_items[last.m] = <<>> /\ _popup[last.m] = <<>>)
    /\ (last.op = "show_at" /\ _items[last.m] = <<>>) =>
          ~(_popup[last.m] # <<>> /\ _popup[last.m][1].visible)

\* C16 as amended: clear() leaves the item list empty and no popup cached; a
\* show_at of a controller whose item list is empty ends with a popup
\* displayed that has no rows (an empty panel), built anew when none was
\* cached, as after clear().
C16_EmptyMenuShowsEmptyPanel ==
    [][ /\ last'.op = "clear" =>
              (_items'[last'.m] = <<>> /\ _popup'[last'.m] = <<>>)
        /\ (last'.op = "show_at" /\ _items[last'.m] = <<>>) =>
              /\ _popup'[last'.m] # <<>>
              /\ _popup'[last'.m][1].visible
              /\ _popup'[last'.m][1]._item_widgets = <<>>
              /\ _items'[last'.m] = <<>>
              /\ last.op = "clear" /\ last.m = last'.m => last'.a = 0 ]_vars

\* clear() was called on a controller that had two items and a popup: the
\* list is empty and no popup is cached, so that the next show_at builds one.
C16_Witness ==
    /\ last.op = "clear" /\ last.a = 2 /\ last.b = 1
    /\ _items[last.m] = <<>> /\ _popup[last.m] = <<>>
    /\ popupWidgets = <<>>

\* C17: whatever shows, dismissals (outside click, Escape, selection of an
\* item) and mutations came before, show_at ends with the controller holding
\* a popup that is displayed, as one open window, and has the input focus.
C17_ShowAtDisplaysAndFocuses ==
    last.op = "show_at" =>
        /\ _popup[last.m] # <<>>
        /\ _popup[last.m][1].visible
        /\ Count(popupWidgets, last.m) = 1
        /\ focus = last.m

\* A subscriber of action_triggered called show_at: the popup that the
\* selection had just closed is displayed again and has the focus.
C17_Witness ==
    /\ last.op = "show_at" /\ last.a = 1
    /\ pc = "in_signal" /\ reent = 1 /\ sel.m = last.m
    /\ _popup[last.m][1].visible /\ focus = last.m
    /\ popupWidgets = <<last.m>>

SvgDone == svg.fn = "svg_to_icon" /\ svg.rendered # <<>>

\* A stroke or fill attribute whose value, in either kind of quotes, is
\* currentColor: position i of markup str holds such a value.
IsPlaceholder(str, i) ==
    /\ i > 1
    /\ str[i].k = "val" /\ str[i].v = "currentColor"
    /\ str[i - 1].k = "attr" /\ str[i - 1].v \in {"stroke", "fill"}

\* C18: the markup svg_to_icon renders is, with a colour, the given markup
\* in which the value of every stroke / fill placeholder is that colour (in
\* the same quotes) and every other piece is what it was; without a colour
\* it is the given markup.
C18_RecolorsPlaceholdersOnly ==
    SvgDone =>
        LET str == svg.svg_string
            out == svg.rendered[1]
        IN  IF svg.color = "None" THEN out = str
            ELSE /\ Len(out) = Len(str)
                 /\ \A i \in 1..Len(str) :
                       out[i] = IF IsPlaceholder(str, i)
                                THEN Val(str[i].q, svg.color)
                                ELSE str[i]

\* Markup with a double-quoted stroke placeholder and a single-quoted fill
\* placeholder was recoloured with #ff0000.
C18_Witness ==
    /\ SvgDone /\ svg.color = "#ff0000"
    /\ svg.svg_string = << Attr("stroke"), Val("dq", "currentColor"),
                           Attr("fill"), Val("sq", "currentColor") >>
    /\ svg.rendered[1] = << Attr("stroke"), Val("dq", "#ff0000"),
                            Attr("fill"), Val("sq", "#ff0000") >>

\* C19: in every popup at most one row is hovered, whatever pointer enter /
\* leave events and Up / Down key presses came before.
C19_AtMostOneRowHovered ==
    \A m \in Menus : _popup[m] # <<>> =>
        Cardinality({r \in DOMAIN _popup[m][1]._item_widgets :
                        _popup[m][1]._item_widgets[r]._hovered}) <= 1

\* C20: a popup that was dismissed (by outside click, Escape or the
\* selection of an item) is not kept, the controller is in the no-popup
\* state: a controller holds no popup or one that is displayed, so that a
\* show_at after a dismissal finds none cached and builds a new one.
C20_DismissedPopupDiscarded ==
    \A m \in Menus : _popup[m] # <<>> => _popup[m][1].visible

\* C21: in every popup the labels of all item rows are drawn at the same
\* horizontal offset, and the icon column is there for every row exactly
\* when some item of the popup has an icon.
C21_LabelsAligned ==
    \A m \in Menus : _popup[m] # <<>> =>
        LET ws == _popup[m][1]._item_widgets
            rows == {r \in DOMAIN ws : ws[r].kind = "item"}
        IN  \A r1 \in rows, r2 \in rows :
                (ws[r1].def \in DOMAIN _items[m] /\ ws[r2].def \in DOMAIN _items[m]) =>
                    label_x(ws[r1], _items[m][ws[r1].def])
                        = label_x(ws[r2], _items[m][ws[r2].def])

\* Whether row r of the popup of m in pops is an armed (pressed) item row.
Armed(pops, m, r) ==
    /\ pops[m] # <<>>
    /\ r \in DOMAIN pops[m][1]._item_widgets
    /\ pops[m][1]._item_widgets[r].kind = "item"
    /\ pops[m][1]._item_widgets[r]._pressed

\* C22: a row becomes armed only by a left press on it while it is enabled,
\* so a disabled row is never armed; a leave event disarms the row; the
\* pointer fires the selection only on a left release inside an armed,
\* enabled row that no leave event has reached since the press, and that
\* release disarms the row, so one press fires at most once; a left release
\* outside an armed row disarms it and fires nothing.
C22_PointerArming ==
    [][ /\ \A m \in Menus : \A r \in Rows :
              (Armed(_popup', m, r) /\ ~Armed(_popup, m, r)) =>
                  /\ last' = Last("mousePressEvent", m, r, 1)
                  /\ _popup[m][1]._item_widgets[r].enabled
        /\ \A m \in Menus : \A r \in Rows :
              Armed(_popup, m, r) => _popup[m][1]._item_widgets[r].enabled
        /\ last'.op = "leaveEvent" =>
              /\ ~Armed(_popup', last'.m, last'.a)
              /\ pc' = pc /\ log' = log
        /\ (pc = "idle" /\ pc' = "in_signal" /\ sel'.via = "mouse") =>
              /\ last'.op = "mouseReleaseEvent" /\ last'.b = 1
              /\ sel'.m = last'.m
              /\ sel'.d = _popup[last'.m][1]._item_widgets[last'.a].def
        /\ (last'.op = "mouseReleaseEvent" /\ last'.b = 1) =>
              /\ Armed(_popup, last'.m, last'.a)
              /\ _popup[last'.m][1]._item_widgets[last'.a].enabled
              /\ mouse = <<last'.m, last'.a>>
              /\ ~Armed(_popup', last'.m, last'.a)
              /\ pc = "idle" /\ pc' = "in_signal" /\ sel'.via = "mouse"
        /\ (last'.op = "mouseReleaseEvent" /\ last'.b = 2) =>
              /\ Armed(_popup, last'.m, last'.a)
              /\ ~Armed(_popup', last'.m, last'.a)
              /\ pc' = pc /\ log' = log /\ _items' = _items
        /\ (last'.op = "mouseReleaseEvent" /\ last'.b = 0) =>
              /\ _popup' = _popup
              /\ pc' = pc /\ log' = log /\ _items' = _items ]_vars

\* A left release outside the bounds of an armed row has disarmed it and
\* fired nothing: the popup is still displayed and nothing is dispatched.
C22_Witness ==
    /\ last.op = "mouseReleaseEvent" /\ last.b = 2
    /\ pc = "idle" /\ log = <<>>
    /\ Shown(last.m)
    /\ ~Armed(_popup, last.m, last.a)
    /\ mouse = <<last.m, last.a>>

\* C23: when an Action row of the popup of a controller m is selected, a
\* child controller included, only that popup is closed and the selection is
\* emitted by m alone: the popup and the shown state of every other
\* controller, the parent's included, are as before the selection, the one
\* notification is that of m, and the rest of the selection's handling
\* closes and shows nothing.
C23_ChildSelectionStaysInChild ==
    [][ /\ (pc = "idle" /\ pc' = "in_signal") =>
              LET m == last'.m IN
              /\ sel'.m = m
              /\ Count(log', "notify") = 1
              /\ Shown(m)
              /\ ~_popup'[m][1].visible
              /\ Count(popupWidgets', m) = 0
              /\ \A k \in Menus \ {m} :
                    /\ _popup'[k] = _popup[k]
                    /\ Count(popupWidgets', k) = Count(popupWidgets, k)
        /\ last'.op \in {"emit_return", "callback_return", "handler_return"} =>
              /\ _popup' = _popup
              /\ popupWidgets' = popupWidgets
        /\ last'.op \in {"emit_return", "callback_return"} => sel' = sel ]_vars

\* The selection of an Action row of a child popup is being delivered: the
\* child popup is closed and the parent popup that opened it is still shown.
C23_Witness ==
    /\ pc = "in_signal" /\ reent = 0
    /\ sel.m # 1
    /\ \E i \in DOMAIN _items[1] :
          _items[1][i].kind = "SUBMENU" /\ _items[1][i].submenu = sel.m
    /\ ~_popup[sel.m][1].visible
    /\ Shown(1)
    /\ popupWidgets = <<1>>
====
